---- MODULE Spec2Model ----
(***************************************************************************)
(* Model of excel_splitter's formula reference remapping (FormulaHelper in *)
(* src/excel_splitter_V2.py; src/excel_splitter_v1.1.0.py holds the same   *)
(* code one line further down) and of the batch processing that uses it    *)
(* (BatchProcessingWidget.batch_process_with_openpyxl).                    *)
(*                                                                         *)
(* Spec runs the functions of FormulaHelper on sheets and formulas;        *)
(* SpecBatch runs batch_process_with_openpyxl on workbooks and condition   *)
(* groups; SpecCells runs the loop body of update_formulas_in_sheet on     *)
(* the cells of a sheet in any order; SpecGui runs the handlers of the     *)
(* condition group list and start_batch_processing.                        *)
(*                                                                         *)
(* Strings are sequences of one-character strings, so that the regular     *)
(* expressions and str.replace of the source are computed character by     *)
(* character, as Python computes them.                                     *)
(***************************************************************************)
EXTENDS Integers, Sequences, FiniteSets, TLC

VARIABLES
    original_row_map,  \* keys of the dict built by create_row_mapping (row numbers)
    rows_to_delete,    \* the rows handed to build_row_mapping_after_deletion
    built_mapping,     \* the dict build_row_mapping_after_deletion returned
    original_formula,  \* the formula handed to adjust_formula_references
    new_formula,       \* the value adjust_formula_references returned
    pc,                \* the position in the program
    excel_file,        \* self.excel_file: the workbook as it is in the file
    wb,                \* the copy batch_process_with_openpyxl works on
    conditions,        \* condition_group.conditions
    cond_idx,          \* the place of "for condition in ..." in conditions
    sheet_row_mappings, \* the dict sheet name -> row mapping
    rewritten,         \* the cells update_formulas_in_sheet has been through
    condition_groups,  \* self.condition_groups: the list of ConditionGroup
    current_group_index, \* self.current_group_index (from 0; -1: none)
    process_btn,       \* self.process_btn.isEnabled()
    progress_bar,      \* self.progress_bar: visible, maximum and value
    group_i,           \* i of "for i, group in enumerate(self.condition_groups)"
    processed_files,   \* the list processed_files of start_batch_processing
    warned             \* the i of the groups the warning box was shown for

formula_vars == <<original_row_map, rows_to_delete, built_mapping,
                  original_formula, new_formula>>

batch_vars == <<excel_file, wb, conditions, cond_idx, sheet_row_mappings>>

cell_vars == <<rewritten>>

gui_vars == <<condition_groups, current_group_index, process_btn,
              progress_bar, group_i, processed_files, warned>>

vars == <<original_row_map, rows_to_delete, built_mapping, original_formula,
          new_formula, pc, excel_file, wb, conditions, cond_idx,
          sheet_row_mappings, rewritten, condition_groups,
          current_group_index, process_btn, progress_bar, group_i,
          processed_files, warned>>

(***************************************************************************)
(* Bounds of the model.                                                    *)
(***************************************************************************)
\* Sheets of 1..MaxRows rows are filtered with every set of deleted rows.
MaxRows == 4
\* Formulas of up to MaxRefs references joined by "+" are rewritten.
MaxRefs == 2
\* Sheets of up to MaxCellRows rows have their cells rewritten in any order.
MaxCellRows == 2
\* The widget holds up to MaxGroups condition groups.
MaxGroups == 2

(***************************************************************************)
(* Characters.                                                             *)
(***************************************************************************)
DigitSeq == <<"0", "1", "2", "3", "4", "5", "6", "7", "8", "9">>
Digits == {DigitSeq[i] : i \in 1..10}
Upper == {"A", "B", "C", "D", "E", "F", "G", "H", "I", "J", "K", "L", "M",
          "N", "O", "P", "Q", "R", "S", "T", "U", "V", "W", "X", "Y", "Z"}
Lower == {"a", "b", "c", "d", "e", "f", "g", "h", "i", "j", "k", "l", "m",
          "n", "o", "p", "q", "r", "s", "t", "u", "v", "w", "x", "y", "z"}
\* [\w\s] of the sheet qualifier
WordSpace == Upper \cup Lower \cup Digits \cup {"_", " "}
\* ['"]
Quotes == {"'", "\""}

\* The value mapped to a deleted row.
None == -1

(***************************************************************************)
(* Python values handed in as a formula. A str is the sequence of its      *)
(* characters; an object that is no str (a cell holding None, a number or  *)
(* a bool) is written as a one-element sequence holding the object's repr  *)
(* in angle brackets, which is no character.                               *)
(***************************************************************************)
NonStrValues == { <<"<None>">>, <<"<int 0>">>, <<"<int 7>">>, <<"<bool True>">> }

\* isinstance(v, str)
isinstance_str(v) == v \notin NonStrValues

\* not v: the empty str, None and 0 are false.
not_(v) == v \in { <<>>, <<"<None>">>, <<"<int 0>">> }

\* v.startswith('=') of a str
startswith_eq(v) == Len(v) >= 1 /\ v[1] = "="

(***************************************************************************)
(* int() and str() on row numbers.                                         *)
(***************************************************************************)
DigitVal(c) == (CHOOSE i \in 1..10 : DigitSeq[i] = c) - 1

RECURSIVE int(_)
int(ds) ==
    IF Len(ds) = 0 THEN 0
    ELSE 10 * int(SubSeq(ds, 1, Len(ds) - 1)) + DigitVal(ds[Len(ds)])

RECURSIVE str(_)
str(n) ==
    IF n < 10 THEN <<DigitSeq[n + 1]>>
    ELSE str(n \div 10) \o <<DigitSeq[(n % 10) + 1]>>

(***************************************************************************)
(* FormulaHelper.build_row_mapping_after_deletion                          *)
(***************************************************************************)
\* sorted(original_map.keys()) as a sequence: the i-th element is the key
\* with i - 1 keys below it.
sorted(S) ==
    [i \in 1..Cardinality(S) |->
        CHOOSE x \in S : Cardinality({y \in S : y < x}) = i - 1]

\* The body with the deleted row given no entry.
build_step_no_entry(orig_row, deleted_rows, offset) ==
    IF orig_row \in deleted_rows
    THEN [mapping |-> <<>>, offset |-> offset + 1]
    ELSE [mapping |-> orig_row :> (orig_row - offset), offset |-> offset]

\* The body without "offset += 1".
build_step_no_offset(orig_row, deleted_rows, offset) ==
    IF orig_row \in deleted_rows
    THEN [mapping |-> orig_row :> None, offset |-> offset]
    ELSE [mapping |-> orig_row :> (orig_row - offset), offset |-> offset]

\* The body with "offset += 1" run for every row, not only the deleted ones.
build_step_offset_every_row(orig_row, deleted_rows, offset) ==
    IF orig_row \in deleted_rows
    THEN [mapping |-> orig_row :> None, offset |-> offset + 1]
    ELSE [mapping |-> orig_row :> (orig_row - offset), offset |-> offset + 1]

\* One pass of the body of "for orig_row in sorted(original_map.keys())":
\* the entry it adds and the offset after it.
build_step(orig_row, deleted_rows, offset) ==
    IF orig_row \in deleted_rows
    THEN [mapping |-> orig_row :> None, offset |-> offset + 1]
    ELSE [mapping |-> orig_row :> (orig_row - offset), offset |-> offset]

\* The passes for keys[lo..hi] in this order, entered with the given offset:
\* the entries they add and the offset after them. The passes of the second
\* half are entered with the offset the first half leaves. (The range is
\* halved, and the first half evaluated first, only to keep the evaluation
\* shallow on a sheet of 100 rows.)
RECURSIVE build_loop(_, _, _, _, _)
build_loop(keys, lo, hi, deleted_rows, offset) ==
    IF lo > hi THEN [mapping |-> <<>>, offset |-> offset]
    ELSE IF lo = hi THEN build_step(keys[lo], deleted_rows, offset)
    ELSE LET mid == (lo + hi) \div 2
             first == build_loop(keys, lo, mid, deleted_rows, offset)
             second == build_loop(keys, mid + 1, hi, deleted_rows, first.offset)
         IN  [mapping |-> first.mapping @@ second.mapping,
              offset |-> second.offset]

\* The arguments as the call leaves them: the function reads
\* original_map.keys() into a new list and tests "orig_row in deleted_rows";
\* it has no statement that writes to either.
original_map_after_build(original_map, deleted_rows) == original_map

deleted_rows_after_build(original_map, deleted_rows) == deleted_rows

\* mapping = {}; offset = 0; the loop; return mapping
build_row_mapping_after_deletion(original_map, deleted_rows) ==
    LET keys == sorted(original_map)
    IN  build_loop(keys, 1, Len(keys), deleted_rows, 0).mapping

(***************************************************************************)
(* FormulaHelper.parse_cell_references: re.findall of                      *)
(*   (?:(?:['"]?[\w\s]+['"]?)?!)?(\$?[A-Z]+\$?[0-9]+)                      *)
(* Every quantifier of the pattern is followed by an element that cannot   *)
(* match what the quantifier gave up, so backtracking never finds a match  *)
(* the greedy choice misses, and each attempt below is the greedy one.     *)
(***************************************************************************)
\* The first position from i on whose character is not in S (the position
\* after the end of the text if there is none). It is written as a minimum,
\* not as a walk, so that a run of thousands of characters is measured
\* without one level of recursion for each of them.
RunEnd(s, i, S) ==
    LET stops == { j \in i..Len(s) : s[j] \notin S }
    IN  IF i > Len(s) THEN i
        ELSE IF stops = {} THEN Len(s) + 1
        ELSE CHOOSE j \in stops : \A k \in stops : j <= k

\* \$?[A-Za-z]+ at i (the pattern compiled with re.IGNORECASE).
ColEnd_ignorecase(s, i) ==
    LET a == IF i <= Len(s) /\ s[i] = "$" THEN i + 1 ELSE i
        b == RunEnd(s, a, Upper \cup Lower)
    IN  IF b > a THEN b ELSE 0

\* \$?[A-Z]+ at i: the position after it, 0 if no match.
ColEnd(s, i) ==
    LET a == IF i <= Len(s) /\ s[i] = "$" THEN i + 1 ELSE i
        b == RunEnd(s, a, Upper)
    IN  IF b > a THEN b ELSE 0

\* \$?[0-9]+ at i: the position after it, 0 if no match.
RowEnd(s, i) ==
    LET c == IF i <= Len(s) /\ s[i] = "$" THEN i + 1 ELSE i
        d == RunEnd(s, c, Digits)
    IN  IF d > c THEN d ELSE 0

\* \$?[A-Z]+\$?[0-9]+ at i: the position after the match, 0 if no match.
CoreEnd(s, i) ==
    IF ColEnd(s, i) = 0 THEN 0 ELSE RowEnd(s, ColEnd(s, i))

\* ['"]?[\w\s]+['"]?! at i: the position after the "!", 0 if no match.
QualifierEnd(s, i) ==
    LET a == IF i <= Len(s) /\ s[i] \in Quotes THEN i + 1 ELSE i
        b == RunEnd(s, a, WordSpace)
        c == IF b <= Len(s) /\ s[b] \in Quotes THEN b + 1 ELSE b
    IN  IF b > a /\ c <= Len(s) /\ s[c] = "!" THEN c + 1 ELSE 0

\* One attempt of the whole pattern at i: <<start of group 1, end of the
\* match>>, <<0, 0>> if the pattern does not match at i. The alternatives
\* are tried in the order of the regex: qualified, a bare "!", unqualified.
MatchAt(s, i) ==
    LET q == QualifierEnd(s, i)
    IN  IF q # 0 /\ CoreEnd(s, q) # 0 THEN <<q, CoreEnd(s, q)>>
        ELSE IF i <= Len(s) /\ s[i] = "!" /\ CoreEnd(s, i + 1) # 0
             THEN <<i + 1, CoreEnd(s, i + 1)>>
        ELSE IF CoreEnd(s, i) # 0 THEN <<i, CoreEnd(s, i)>>
        ELSE <<0, 0>>

\* re.findall from position i: group 1 of the successive matches.
RECURSIVE findall(_, _)
findall(s, i) ==
    IF i > Len(s) THEN <<>>
    ELSE LET m == MatchAt(s, i)
         IN  IF m[2] # 0
             THEN <<SubSeq(s, m[1], m[2] - 1)>> \o findall(s, m[2])
             ELSE findall(s, i + 1)

parse_cell_references(formula) ==
    IF not_(formula) \/ ~isinstance_str(formula) THEN <<>>
    ELSE findall(formula, 1)

(***************************************************************************)
(* FormulaHelper.adjust_formula_references                                 *)
(***************************************************************************)
\* Whether s holds old at position i.
OccursAt(s, old, i) ==
    /\ i + Len(old) - 1 <= Len(s)
    /\ SubSeq(s, i, i + Len(old) - 1) = old

\* str.replace(old, new) from position i on: the occurrences of old, found
\* from left to right without overlap, are replaced; old is never empty.
RECURSIVE replace_from(_, _, _, _)
replace_from(s, old, new, i) ==
    IF i > Len(s) THEN <<>>
    ELSE IF OccursAt(s, old, i)
         THEN new \o replace_from(s, old, new, i + Len(old))
         ELSE <<s[i]>> \o replace_from(s, old, new, i + 1)

\* str.replace(old, new, 1): only the first occurrence.
RECURSIVE replace_first_from(_, _, _, _)
replace_first_from(s, old, new, i) ==
    IF i > Len(s) THEN <<>>
    ELSE IF OccursAt(s, old, i)
         THEN new \o SubSeq(s, i + Len(old), Len(s))
         ELSE <<s[i]>> \o replace_first_from(s, old, new, i + 1)

replace_first(s, old, new) == replace_first_from(s, old, new, 1)

replace(s, old, new) == replace_from(s, old, new, 1)

\* The references left in their order of appearance.
sort_none(refs) == refs

\* The references of the given length, in their order in refs.
OfLen(refs, n) == SelectSeq(refs, LAMBDA r : Len(r) = n)

\* cell_refs.sort(key=len, reverse=True): a stable sort, so that references
\* of equal length keep their order of appearance.
RECURSIVE sort_from(_, _)
sort_from(refs, n) ==
    IF n = 0 THEN <<>> ELSE OfLen(refs, n) \o sort_from(refs, n - 1)

MaxLen(refs) ==
    IF refs = <<>> THEN 0
    ELSE CHOOSE n \in {Len(refs[i]) : i \in 1..Len(refs)} :
             \A i \in 1..Len(refs) : Len(refs[i]) <= n

sort_by_len_reverse(refs) == sort_from(refs, MaxLen(refs))

\* re.match(r'(\$?[A-Z]+)(\$?[0-9]+)', ref): the two groups.
col_ref_of(ref) == SubSeq(ref, 1, ColEnd(ref, 1) - 1)

row_ref_of(ref) == SubSeq(ref, ColEnd(ref, 1), CoreEnd(ref, 1) - 1)

is_absolute_of(ref) == row_ref_of(ref)[1] = "$"

row_num_of(ref) ==
    IF is_absolute_of(ref) THEN int(Tail(row_ref_of(ref)))
    ELSE int(row_ref_of(ref))

\* Whether the loop body reaches its replace for ref: the reference
\* matches, its row is a key of the mapping and is not mapped to None.
reaches_replace(ref, row_mapping) ==
    /\ CoreEnd(ref, 1) # 0
    /\ row_num_of(ref) \in DOMAIN row_mapping
    /\ row_mapping[row_num_of(ref)] # None

\* new_ref with the "$" of an absolute row dropped.
new_ref_no_dollar(ref, row_mapping) ==
    col_ref_of(ref) \o str(row_mapping[row_num_of(ref)])

\* new_ref = f'{col_ref}{new_row_ref}'
new_ref_of(ref, row_mapping) ==
    col_ref_of(ref)
        \o (IF is_absolute_of(ref) THEN <<"$">> ELSE <<>>)
        \o str(row_mapping[row_num_of(ref)])

\* One pass of the body of "for ref in cell_refs".
substitute_ref(text, ref, row_mapping) ==
    IF reaches_replace(ref, row_mapping)
    THEN replace(text, ref, new_ref_of(ref, row_mapping))
    ELSE text

\* The loop "for ref in cell_refs" from cell_refs[i] on.
RECURSIVE substitute_refs(_, _, _, _)
substitute_refs(text, cell_refs, i, row_mapping) ==
    IF i > Len(cell_refs) THEN text
    ELSE substitute_refs(substitute_ref(text, cell_refs[i], row_mapping),
                         cell_refs, i + 1, row_mapping)

\* The function without "or not formula.startswith('=')".
adjust_no_startswith(formula, row_mapping) ==
    IF not_(formula) \/ ~isinstance_str(formula) THEN formula
    ELSE substitute_refs(formula,
                         sort_by_len_reverse(parse_cell_references(formula)),
                         1, row_mapping)

adjust_formula_references(formula, row_mapping) ==
    IF not_(formula) \/ ~isinstance_str(formula) \/ ~startswith_eq(formula)
    THEN formula
    ELSE substitute_refs(formula,
                         sort_by_len_reverse(parse_cell_references(formula)),
                         1, row_mapping)

(***************************************************************************)
(* The exceptions adjust_formula_references can raise: of its operations,  *)
(* match.groups() raises on None (no match), int() on a str that is not a  *)
(* run of digits or is too long a run, and row_mapping[row_num] on a       *)
(* missing key.                                                            *)
(***************************************************************************)
\* The longest run of digits int() converts: CPython's default
\* sys.int_info.default_max_str_digits, in force since 3.11 (and 3.10.7,
\* 3.9.14, 3.8.14, 3.7.14). The program never calls
\* sys.set_int_max_str_digits, so the default is the limit of its int().
int_max_str_digits == 4300

\* int(ds) raises ValueError
int_raises(ds) ==
    \/ ds = <<>>
    \/ \E i \in 1..Len(ds) : ds[i] \notin Digits
    \/ Len(ds) > int_max_str_digits

\* row_mapping[row_num] raises KeyError
getitem_raises(row_mapping, row_num) == row_num \notin DOMAIN row_mapping

\* The str handed to int(): row_ref, or row_ref[1:] after a "$".
int_arg_of(ref) ==
    IF is_absolute_of(ref) THEN Tail(row_ref_of(ref)) ELSE row_ref_of(ref)

\* Whether one pass of the loop body raises: nothing is done without a
\* match ("if match:"), and the mapping is read only under
\* "if row_num in row_mapping:".
substitute_ref_raises(ref, row_mapping) ==
    IF CoreEnd(ref, 1) = 0 THEN FALSE
    ELSE IF int_raises(int_arg_of(ref)) THEN TRUE
    ELSE IF row_num_of(ref) \in DOMAIN row_mapping
         THEN getitem_raises(row_mapping, row_num_of(ref))
         ELSE FALSE

\* The value passes the guard of line 67: a str that starts with "=".
IsFormulaStr(v) == ~not_(v) /\ isinstance_str(v) /\ startswith_eq(v)

\* Whether the call raises: some pass of the loop does.
adjust_raises(formula, row_mapping) ==
    IF not_(formula) \/ ~isinstance_str(formula) \/ ~startswith_eq(formula)
    THEN FALSE
    ELSE \E i \in 1..Len(parse_cell_references(formula)) :
             substitute_ref_raises(parse_cell_references(formula)[i], row_mapping)

\* What a caller sees in place of a return value when the call raises.
Raised == <<"<raised>">>

\* row_mapping after a call that gave every referenced row without an entry
\* the entry None (as row_mapping.setdefault(row_num) would).
row_mapping_with_missing_rows(formula, row_mapping) ==
    IF adjust_raises(formula, row_mapping) THEN row_mapping
    ELSE LET refs == parse_cell_references(formula)
             missing == { row_num_of(refs[i]) : i \in 1..Len(refs) }
                            \ DOMAIN row_mapping
         IN  IF IsFormulaStr(formula)
             THEN [r \in missing |-> None] @@ row_mapping
             ELSE row_mapping

\* row_mapping as the call leaves it: the function tests
\* "row_num in row_mapping" and reads row_mapping[row_num]; it has no
\* statement that writes to it.
row_mapping_after_adjust(formula, row_mapping) == row_mapping

\* The outcome of the call: the value returned, or Raised.
call_adjust(formula, row_mapping) ==
    IF adjust_raises(formula, row_mapping) THEN Raised
    ELSE adjust_formula_references(formula, row_mapping)

(***************************************************************************)
(* The inputs the operations are run on.                                   *)
(***************************************************************************)
\* create_row_mapping numbers the rows of a sheet from 1: the keys of
\* original_row_map are 1..max_row. Every sheet of up to MaxRows rows with
\* every set of deleted rows, and the sheets of the scenarios of the
\* specification: rows 2..9 of 100 deleted, row 10 moved to row 7, and two
\* sheets where a retained row's number starts a longer row number.
ScenarioSheets ==
    { [rows |-> 100, deleted |-> 2..9],
      [rows |-> 10, deleted |-> {2, 3, 4}],
      [rows |-> 30, deleted |-> {2, 30}],
      [rows |-> 5, deleted |-> {2}] }

Sheets ==
    { [rows |-> n, deleted |-> D] : n \in 1..MaxRows, D \in SUBSET (1..MaxRows) }

SheetInputs ==
    { sh \in Sheets : sh.deleted \subseteq 1..sh.rows } \cup ScenarioSheets

\* References to column A, with and without "$", of the rows of a sheet and
\* of the row after the last one.
ColParts == { <<"A">>, <<"$", "A">> }

RowParts ==
    UNION { { str(r), <<"$">> \o str(r) } : r \in 1..(MaxRows + 1) }

\* Row numbers written with a leading zero, which the pattern [0-9]+ takes.
ZeroRowParts == { <<"0">> \o str(r) : r \in 1..(MaxRows + 1) }

PlainRefs == { <<"A">> \o str(r) : r \in 1..(MaxRows + 1) }

SingleRefs ==
    { c \o r : c \in ColParts, r \in RowParts \cup ZeroRowParts }

\* The formulas of exactly k references of PlainRefs joined by "+".
RECURSIVE JoinedRefs(_)
JoinedRefs(k) ==
    IF k = 1 THEN PlainRefs
    ELSE { f \o <<"+">> \o r : f \in JoinedRefs(k - 1), r \in PlainRefs }

\* The formulas of the scenarios, and one that multiplies the defined name
\* TAX01, which the pattern takes for a reference.
ScenarioFormulas ==
    { <<"=", "A", "1", "+", "A", "1", "0", "+", "A", "1", "0", "0">>,
      <<"=", "A", "1", "0", "*", "A", "1", "0", "+", "A", "1", "0">>,
      <<"=", "$", "A", "$", "1", "0">>,
      <<"=", "A", "1", "0">>,
      <<"=", "A", "3", "0", "+", "A", "3">>,
      <<"=", "A", "5", "0", "+", "A", "5">>,
      <<"=", "T", "A", "X", "0", "1", "*", "2">> }

\* Formulas with sheet-qualified references, among them a sheet whose name
\* reads like a cell reference.
QualifiedFormulas ==
    { <<"=", "D", "a", "t", "a", "!", "A", "4">>,
      <<"=", "D", "a", "t", "a", "!", "A", "3">>,
      <<"=", "B", "2", "!", "B", "2">>,
      <<"=", "'", "M", "y", " ", "S", "h", "e", "e", "t", "'", "!", "$", "A", "$", "4">>,
      <<"=", "A", "4", "+", "D", "a", "t", "a", "!", "A", "4">> }

\* Formulas in which the pattern finds no reference.
NoRefFormulas ==
    { <<"=", "1", "+", "2">>,
      <<"=">>,
      <<"=", "a", "4", "+", "b", "2">> }

\* Formulas whose reference-like tokens are outside the pattern: lowercase
\* column letters, full-column references and full-row references.
OutsideGrammarFormulas ==
    { <<"=", "a", "1", "0">>,
      <<"=", "$", "a", "$", "4">>,
      <<"=", "A", ":", "A">>,
      <<"=", "$", "A", ":", "$", "B">>,
      <<"=", "1", ":", "1">>,
      <<"=", "$", "2", ":", "$", "4">>,
      <<"=", "S", "U", "M", "(", "A", ":", "A", ")", "+", "a", "4", "+", "2", ":", "2">> }

\* Formulas with text of the shape letters-then-digits that is no cell
\* reference: the function names LOG10 and ATAN2, and a string literal.
\* Their cell references are to row 1.
NameAndLiteralFormulas ==
    { <<"=", "L", "O", "G", "1", "0", "(", "A", "1", ")">>,
      <<"=", "A", "T", "A", "N", "2", "(", "A", "1", ",", "B", "1", ")">>,
      <<"=", "\"", "A", "4", "\"">> }

\* Values that are no formula: strs not starting with "=", the empty str,
\* and objects that are no str.
NonFormulas ==
    { <<"A", "4">>,
      <<" ", "=", "A", "4">>,
      <<"A", "4", "=", "A", "3">>,
      <<"x">>,
      <<>> } \cup NonStrValues

\* A formula whose one reference, A111...1, has one row digit more than
\* int() converts.
OverlongFormulas ==
    { <<"=", "A">> \o [i \in 1..(int_max_str_digits + 1) |-> "1"] }

Formulas ==
    { <<"=">> \o f : f \in SingleRefs \cup UNION { JoinedRefs(k) : k \in 1..MaxRefs } }
        \cup ScenarioFormulas \cup QualifiedFormulas \cup NoRefFormulas
        \cup NonFormulas \cup OverlongFormulas
        \cup OutsideGrammarFormulas \cup NameAndLiteralFormulas

(***************************************************************************)
(* The state machine: a sheet is filtered and its row mapping built (the   *)
(* caller's lines 1033-1050), then a formula of the sheet is rewritten     *)
(* with it (update_formulas_in_sheet's call, line 128).                    *)
(***************************************************************************)
\* No call of update_formulas_in_sheet is under way.
NoCells == rewritten = {}

\* The widget as __init__ and initUI leave it: no condition group, no group
\* selected, the process button disabled (line 558), the progress bar
\* hidden (line 565) with the maximum and value a new QProgressBar has.
NoGui ==
    /\ condition_groups = <<>>
    /\ current_group_index = -1
    /\ process_btn = FALSE
    /\ progress_bar = [visible |-> FALSE, maximum |-> 100, value |-> -1]
    /\ group_i = 0
    /\ processed_files = <<>>
    /\ warned = <<>>

Init ==
    /\ original_row_map = {}
    /\ rows_to_delete = {}
    /\ built_mapping = <<>>
    /\ original_formula = <<>>
    /\ new_formula = <<>>
    /\ pc = "start"
    /\ excel_file = <<>>
    /\ wb = <<>>
    /\ conditions = <<>>
    /\ cond_idx = 0
    /\ sheet_row_mappings = <<>>
    /\ NoCells
    /\ NoGui

BuildRowMapping ==
    /\ pc = "start"
    /\ \E sh \in SheetInputs :
           /\ original_row_map' = original_map_after_build(1..sh.rows, sh.deleted)
           /\ rows_to_delete' = deleted_rows_after_build(1..sh.rows, sh.deleted)
           /\ built_mapping' =
                  build_row_mapping_after_deletion(1..sh.rows, sh.deleted)
    /\ pc' = "mapped"
    /\ UNCHANGED <<original_formula, new_formula>>
    /\ UNCHANGED batch_vars
    /\ UNCHANGED cell_vars
    /\ UNCHANGED gui_vars

AdjustFormula ==
    /\ pc = "mapped"
    /\ \E f \in Formulas :
           /\ original_formula' = f
           /\ new_formula' = call_adjust(f, built_mapping)
           /\ built_mapping' = row_mapping_after_adjust(f, built_mapping)
    /\ pc' = "adjusted"
    /\ UNCHANGED <<original_row_map, rows_to_delete>>
    /\ UNCHANGED batch_vars
    /\ UNCHANGED cell_vars
    /\ UNCHANGED gui_vars

Next == BuildRowMapping \/ AdjustFormula

Spec == Init /\ [][Next]_vars

(***************************************************************************)
(* BatchProcessingWidget.batch_process_with_openpyxl: the workbook.        *)
(* A worksheet is the sequence of its rows, so that ws.max_row is its      *)
(* length and ws.delete_rows moves the rows below up. A row has two cells, *)
(* a and b, and an id: the number the row has in the file, which tells it  *)
(* from a row of equal content and is never read by the program.           *)
(***************************************************************************)
\* str(v) of a cell value or filter value
str_value(v) ==
    IF v = <<"<None>">> THEN <<"N", "o", "n", "e">>
    ELSE IF v = <<"<int 0>">> THEN <<"0">>
    ELSE IF v = <<"<int 7>">> THEN <<"7">>
    ELSE IF v = <<"<bool True>">> THEN <<"T", "r", "u", "e">>
    ELSE v

\* str(row[col_index].value) if row[col_index].value is not None else ""
cell_value_of(v) == IF v = <<"<None>">> THEN <<>> ELSE str_value(v)

\* filter_values = [str(v) for v in condition['values']]
filter_values_of(condition) == { str_value(v) : v \in condition.values }

\* wb.sheetnames
sheetnames(book) == DOMAIN book

\* ws.max_row
max_row(ws) == Len(ws)

\* row[idx] of a row, idx counted from 0
cell_of(row, idx) == IF idx = 0 THEN row.a ELSE row.b

\* The index of the first cell of the header row whose str is column_name,
\* -1 if there is none.
col_index_of(ws, column_name) ==
    IF str_value(ws[1].a) = column_name THEN 0
    ELSE IF str_value(ws[1].b) = column_name THEN 1
    ELSE -1

\* The rows of enumerate(ws.iter_rows(min_row=1), start=2), were the header
\* row iterated with the data rows.
data_rows_from_header(ws) == 1..max_row(ws)

\* The row numbers of enumerate(ws.iter_rows(min_row=2), start=2).
data_rows(ws) == 2..max_row(ws)

\* The rows appended to rows_to_delete: the data rows whose cell is none of
\* the filter values.
rows_not_in_filter(ws, idx, filter_values) ==
    { row_idx \in data_rows(ws) :
          cell_value_of(cell_of(ws[row_idx], idx)) \notin filter_values }

\* The adjustment with ">" for ">=".
keep_one_row_strict(rows, ws) ==
    IF Cardinality(rows) > max_row(ws) - 1 THEN rows \ {2} ELSE rows

\* if len(rows_to_delete) >= ws.max_row - 1:
\*     if 2 in rows_to_delete: rows_to_delete.remove(2)
keep_one_row(rows, ws) ==
    IF Cardinality(rows) >= max_row(ws) - 1 THEN rows \ {2} ELSE rows

\* sorted(rows) where the code has sorted(rows, reverse=True).
sorted_not_reversed(rows) == sorted(rows)

\* sorted(rows_to_delete, reverse=True)
sorted_reverse(rows) ==
    [i \in 1..Cardinality(rows) |-> sorted(rows)[Cardinality(rows) + 1 - i]]

\* ws.delete_rows(row_idx, 1): the row is taken out and the rows below it
\* move up by one; the formulas of the sheet are left as they are.
delete_rows(ws, row_idx) ==
    IF row_idx \in 1..Len(ws)
    THEN SubSeq(ws, 1, row_idx - 1) \o SubSeq(ws, row_idx + 1, Len(ws))
    ELSE ws

\* for row_idx in order: ws.delete_rows(row_idx, 1), from order[i] on.
RECURSIVE delete_each(_, _, _)
delete_each(ws, order, i) ==
    IF i > Len(order) THEN ws
    ELSE delete_each(delete_rows(ws, order[i]), order, i + 1)

\* cell.data_type == 'f': openpyxl gives the type to a str that starts
\* with "=".
data_type_f(v) == isinstance_str(v) /\ startswith_eq(v)

\* The body of update_formulas_in_sheet's loop for one cell.
update_cell(v, row_mapping) ==
    IF data_type_f(v) /\ ~not_(v) /\ isinstance_str(v)
    THEN adjust_formula_references(v, row_mapping)
    ELSE v

\* FormulaHelper.update_formulas_in_sheet: every cell of every row.
update_formulas_in_sheet(ws, row_mapping) ==
    [r \in 1..Len(ws) |->
        [ws[r] EXCEPT !.a = update_cell(@, row_mapping),
                      !.b = update_cell(@, row_mapping)]]

(***************************************************************************)
(* The cross-sheet pass: re.findall of                                     *)
(*   (\'?[^!]+\'?)!(\$?[A-Z]+\$?[0-9]+)                                    *)
(* An attempt at position i takes, for group 1, the text from i up to the  *)
(* first "!" at or after i (at least one character), and for group 2 the   *)
(* reference after that "!". Giving up characters of [^!]+ never helps:    *)
(* the character after a shorter run is no "!". So the attempts at i and   *)
(* at every position up to the "!" fail together, and the scan goes on     *)
(* after the "!".                                                          *)
(***************************************************************************)
\* The position of the first "!" at or after i, 0 if there is none.
FirstBang(s, i) ==
    LET bangs == { j \in i..Len(s) : s[j] = "!" }
    IN  IF bangs = {} THEN 0
        ELSE CHOOSE j \in bangs : \A k \in bangs : j <= k

\* re.findall from position i: the pairs <<ref_sheet, cell_ref>>.
RECURSIVE findall_sheet_refs(_, _)
findall_sheet_refs(s, i) ==
    LET p == FirstBang(s, i)
    IN  IF i > Len(s) \/ p = 0 THEN <<>>
        ELSE IF p > i /\ CoreEnd(s, p + 1) # 0
             THEN << <<SubSeq(s, i, p - 1),
                       SubSeq(s, p + 1, CoreEnd(s, p + 1) - 1)>> >>
                      \o findall_sheet_refs(s, CoreEnd(s, p + 1))
             ELSE findall_sheet_refs(s, p + 1)

\* ref_sheet.strip("'"): the quotes at both ends are taken off.
strip_quote(t) ==
    LET kept == { j \in 1..Len(t) : t[j] # "'" }
        lo == CHOOSE j \in kept : \A k \in kept : j <= k
        hi == CHOOSE j \in kept : \A k \in kept : k <= j
    IN  IF kept = {} THEN <<>> ELSE SubSeq(t, lo, hi)

\* One pass of the body of "for ref_sheet, cell_ref in sheet_refs".
cross_substitute_ref(text, ref_sheet, cell_ref, mappings) ==
    IF /\ strip_quote(ref_sheet) \in DOMAIN mappings
       /\ reaches_replace(cell_ref, mappings[strip_quote(ref_sheet)])
    THEN replace(text,
                 ref_sheet \o <<"!">> \o cell_ref,
                 ref_sheet \o <<"!">>
                     \o new_ref_of(cell_ref, mappings[strip_quote(ref_sheet)]))
    ELSE text

\* The loop "for ref_sheet, cell_ref in sheet_refs" from sheet_refs[i] on.
RECURSIVE cross_substitute_refs(_, _, _, _)
cross_substitute_refs(text, sheet_refs, i, mappings) ==
    IF i > Len(sheet_refs) THEN text
    ELSE cross_substitute_refs(
             cross_substitute_ref(text, sheet_refs[i][1], sheet_refs[i][2],
                                  mappings),
             sheet_refs, i + 1, mappings)

\* What the cross-sheet pass makes of one cell.
cross_cell(v, mappings) ==
    IF data_type_f(v) /\ ~not_(v) /\ isinstance_str(v)
    THEN cross_substitute_refs(v, findall_sheet_refs(v, 1), 1, mappings)
    ELSE v

\* The cross-sheet pass over one sheet: every cell of every row.
cross_sheet_pass(ws, mappings) ==
    [r \in 1..Len(ws) |->
        [ws[r] EXCEPT !.a = cross_cell(@, mappings),
                      !.b = cross_cell(@, mappings)]]

(***************************************************************************)
(* The workbooks and condition groups of the model. No formula of them has *)
(* a row of more digits than int() converts, so no call raises and the     *)
(* except clauses of the function are never entered.                       *)
(***************************************************************************)
DataName == <<"D", "a", "t", "a">>

SummaryName == <<"S", "u", "m", "m", "a", "r", "y">>

\* The name of no sheet of the workbook.
NopeName == <<"N", "o", "p", "e">>

\* The header row: column K holds the keys, column F the formulas.
HeaderRow == [id |-> 1, a |-> <<"K">>, b |-> <<"F">>]

KeyValues == { <<"x">>, <<"y">> }

\* The keys of the data rows of sheet Data: every column of up to
\* MaxRows - 1 keys, and the column of the cross-sheet scenario (rows 1-5,
\* of which a filter on x deletes row 3).
KeyColumns ==
    UNION { [1..n -> KeyValues] : n \in 0..(MaxRows - 1) }
        \cup { << <<"x">>, <<"y">>, <<"x">>, <<"x">> >> }

\* What the F cell of every data row of sheet Data holds: an unqualified
\* reference, a reference into the other sheet, one into a sheet that does
\* not exist, or a number.
DataCells ==
    { <<"=", "A", "3">>,
      <<"=">> \o SummaryName \o <<"!", "A", "3">>,
      <<"=">> \o NopeName \o <<"!", "A", "3">>,
      <<"<int 7>">> }

DataSheet(keys, cell) ==
    <<HeaderRow>> \o
        [i \in 1..Len(keys) |-> [id |-> i + 1, a |-> keys[i], b |-> cell]]

\* Sheet Summary: two data rows, with =Data!A4 and =Data!A3.
SummarySheet ==
    << HeaderRow,
       [id |-> 2, a |-> <<"x">>, b |-> <<"=">> \o DataName \o <<"!", "A", "4">>],
       [id |-> 3, a |-> <<"<None>">>, b |-> <<"=">> \o DataName \o <<"!", "A", "3">>] >>

Workbooks ==
    { (DataName :> DataSheet(keys, cell)) @@ (SummaryName :> SummarySheet) :
          keys \in KeyColumns, cell \in DataCells }

\* The conditions: sheet Data filtered on x, on y and on a number no row
\* holds; sheet Summary filtered on x; a column and a sheet that do not
\* exist.
Conditions ==
    { [sheet |-> DataName, column |-> <<"K">>, values |-> { <<"x">> }],
      [sheet |-> DataName, column |-> <<"K">>, values |-> { <<"y">> }],
      [sheet |-> DataName, column |-> <<"K">>, values |-> { <<"<int 7>">> }],
      [sheet |-> SummaryName, column |-> <<"K">>, values |-> { <<"x">> }],
      [sheet |-> DataName, column |-> <<"Z">>, values |-> { <<"x">> }],
      [sheet |-> NopeName, column |-> <<"K">>, values |-> { <<"x">> }] }

\* The condition groups: one condition, or two.
ConditionGroups ==
    { <<c>> : c \in Conditions } \cup { <<c, d>> : c, d \in Conditions }

(***************************************************************************)
(* The state machine of batch_process_with_openpyxl: for each condition    *)
(* the mapping is built, the rows are deleted and the formulas of the      *)
(* sheet are rewritten; after the last condition the cross-sheet pass      *)
(* rewrites the formulas of every sheet and the workbook is saved.         *)
(***************************************************************************)
InitBatch ==
    /\ excel_file \in Workbooks
    /\ wb = excel_file
    /\ conditions \in ConditionGroups
    /\ cond_idx = 1
    /\ sheet_row_mappings = <<>>
    /\ original_row_map = {}
    /\ rows_to_delete = {}
    /\ built_mapping = <<>>
    /\ original_formula = <<>>
    /\ new_formula = <<>>
    /\ pc = "loop"
    /\ NoCells
    /\ NoGui

\* The condition the loop is at.
condition == conditions[cond_idx]

\* The condition names a sheet of the workbook and a column of its header.
Applies(c, book) ==
    /\ c.sheet \in sheetnames(book)
    /\ col_index_of(book[c.sheet], c.column) # -1

\* The two "continue" of the loop: sheet or column not found.
SkipCondition ==
    /\ pc = "loop"
    /\ cond_idx <= Len(conditions)
    /\ ~Applies(condition, wb)
    /\ cond_idx' = cond_idx + 1
    /\ UNCHANGED <<original_row_map, rows_to_delete, built_mapping,
                   original_formula, new_formula, pc, excel_file, wb,
                   conditions, sheet_row_mappings>>
    /\ UNCHANGED cell_vars
    /\ UNCHANGED gui_vars

\* Lines 1033-1050: the rows to delete are collected and the mapping built
\* and stored.
BuildMapping ==
    /\ pc = "loop"
    /\ cond_idx <= Len(conditions)
    /\ Applies(condition, wb)
    /\ LET ws == wb[condition.sheet]
           rows == keep_one_row(
                       rows_not_in_filter(ws,
                                          col_index_of(ws, condition.column),
                                          filter_values_of(condition)),
                       ws)
           row_map == build_row_mapping_after_deletion(1..max_row(ws), rows)
       IN  /\ original_row_map' = 1..max_row(ws)
           /\ rows_to_delete' = rows
           /\ built_mapping' = row_map
           /\ sheet_row_mappings' =
                  (condition.sheet :> row_map) @@ sheet_row_mappings
    /\ pc' = "delete"
    /\ UNCHANGED <<original_formula, new_formula, excel_file, wb, conditions,
                   cond_idx>>
    /\ UNCHANGED cell_vars
    /\ UNCHANGED gui_vars

\* Lines 1053-1054: the rows are deleted, the highest first.
DeleteRows ==
    /\ pc = "delete"
    /\ wb' = [wb EXCEPT ![condition.sheet] =
                  delete_each(@, sorted_reverse(rows_to_delete), 1)]
    /\ pc' = "update"
    /\ UNCHANGED <<original_row_map, rows_to_delete, built_mapping,
                   original_formula, new_formula, excel_file, conditions,
                   cond_idx, sheet_row_mappings>>
    /\ UNCHANGED cell_vars
    /\ UNCHANGED gui_vars

\* Line 1057: the formulas of the sheet are rewritten with its mapping, and
\* the loop goes to the next condition.
UpdateFormulas ==
    /\ pc = "update"
    /\ wb' = [wb EXCEPT ![condition.sheet] =
                  update_formulas_in_sheet(@, built_mapping)]
    /\ cond_idx' = cond_idx + 1
    /\ pc' = "loop"
    /\ UNCHANGED <<original_row_map, rows_to_delete, built_mapping,
                   original_formula, new_formula, excel_file, conditions,
                   sheet_row_mappings>>
    /\ UNCHANGED cell_vars
    /\ UNCHANGED gui_vars

\* Lines 1064-1135: after the loop, the cross-sheet pass over every sheet,
\* and wb.save.
CrossSheetPass ==
    /\ pc = "loop"
    /\ cond_idx > Len(conditions)
    /\ wb' = [name \in sheetnames(wb) |->
                  cross_sheet_pass(wb[name], sheet_row_mappings)]
    /\ pc' = "saved"
    /\ UNCHANGED <<original_row_map, rows_to_delete, built_mapping,
                   original_formula, new_formula, excel_file, conditions,
                   cond_idx, sheet_row_mappings>>
    /\ UNCHANGED cell_vars
    /\ UNCHANGED gui_vars

NextBatch ==
    SkipCondition \/ BuildMapping \/ DeleteRows \/ UpdateFormulas
        \/ CrossSheetPass

SpecBatch == InitBatch /\ [][NextBatch]_vars

(***************************************************************************)
(* FormulaHelper.update_formulas_in_sheet, one cell at a time.  The source *)
(* goes through the cells row by row; here the cells are gone through in   *)
(* any order, each exactly once, with the body of the loop run for the     *)
(* cell.                                                                   *)
(***************************************************************************)
\* What the two cells of a row hold: formulas of two references and of one,
\* and a number.
CellValues ==
    { << <<"=", "A", "3", "+", "B", "2">>, <<"=", "A", "4">> >>,
      << <<"=", "A", "4">>, <<"<int 7>">> >>,
      << <<"<int 7>">>, <<"=", "A", "3", "+", "B", "2">> >>,
      << <<"=", "A", "4">>, <<"=", "A", "4">> >> }

\* The sheets: 1..MaxCellRows rows of two cells.
CellSheets ==
    UNION { { [r \in 1..n |-> [id |-> r, a |-> cs[r][1], b |-> cs[r][2]]] :
                  cs \in [1..n -> CellValues] } :
            n \in 1..MaxCellRows }

\* The deleted rows of the mappings the sheets are rewritten with.
CellDeletions == SUBSET {2, 3}

InitCells ==
    /\ \E ws \in CellSheets : excel_file = (DataName :> ws)
    /\ wb = excel_file
    /\ original_row_map = 1..MaxRows
    /\ rows_to_delete \in CellDeletions
    /\ built_mapping =
           build_row_mapping_after_deletion(original_row_map, rows_to_delete)
    /\ original_formula = <<>>
    /\ new_formula = <<>>
    /\ conditions = <<>>
    /\ cond_idx = 0
    /\ sheet_row_mappings = <<>>
    /\ pc = "cells"
    /\ NoCells
    /\ NoGui

\* The cells of a sheet: row number and column.
cells_of(ws) == (1..Len(ws)) \X {"a", "b"}

\* The body of the loop for the cell of row r and column c, reading the
\* cell beside it: the b cell takes the rewritten formula of the a cell.
rewrite_cell_from_neighbour(ws, r, c, row_mapping) ==
    [ws EXCEPT ![r][c] = IF c = "b" /\ data_type_f(ws[r].a)
                         THEN update_cell(ws[r].a, row_mapping)
                         ELSE update_cell(@, row_mapping)]

\* The body of the loop for the cell of row r and column c: lines 124-133.
rewrite_cell(ws, r, c, row_mapping) ==
    [ws EXCEPT ![r][c] = update_cell(@, row_mapping)]

RewriteCell ==
    /\ pc = "cells"
    /\ \E cell \in cells_of(wb[DataName]) \ rewritten :
           /\ wb' = [wb EXCEPT ![DataName] =
                         rewrite_cell(@, cell[1], cell[2], built_mapping)]
           /\ rewritten' = rewritten \cup {cell}
    /\ UNCHANGED <<original_row_map, rows_to_delete, built_mapping,
                   original_formula, new_formula, pc, excel_file, conditions,
                   cond_idx, sheet_row_mappings>>
    /\ UNCHANGED gui_vars

NextCells == RewriteCell

SpecCells == InitCells /\ [][NextCells]_vars

(***************************************************************************)
(* BatchProcessingWidget: the list of condition groups, its handlers       *)
(* add_condition_group, remove_condition_group, group_selected and         *)
(* import_condition_groups, and start_batch_processing, which goes through *)
(* the groups and writes one file for each.  Indexes are from 0, as in the *)
(* source; the group of index k is condition_groups[k + 1].                *)
(***************************************************************************)
\* The characters of the source's literals that are not ASCII, each written
\* as its code point and standing for one character.
CJK == {"U+6761", "U+4EF6", "U+7EC4", "U+672A", "U+547D", "U+540D"}

\* c.isalnum()
isalnum(c) == c \in Upper \cup Lower \cup Digits \cup CJK

\* The default name of ConditionGroup.__init__.
DefaultName == <<"U+672A", "U+547D", "U+540D", "U+6761", "U+4EF6", "U+7EC4">>

\* ConditionGroup(name): self.name = name if name else the default name;
\* self.conditions = [].
ConditionGroup(name) ==
    [name |-> IF not_(name) THEN DefaultName ELSE name, conditions |-> <<>>]

\* The name add_condition_group gives the new group when the list holds n.
new_group_name(n) == <<"U+6761", "U+4EF6", "U+7EC4", " ">> \o str(n + 1)

\* The length safe_name is cut to.
safe_name_limit == 50

\* c if c.isalnum() or c in [' ', '_', '-'] else '_'
safe_char(c) == IF isalnum(c) \/ c \in {" ", "_", "-"} THEN c ELSE "_"

\* safe_name of start_batch_processing: the characters joined, then cut.
safe_name(name) ==
    LET joined == [k \in 1..Len(name) |-> safe_char(name[k])]
    IN  IF Len(joined) > safe_name_limit
        THEN SubSeq(joined, 1, safe_name_limit)
        ELSE joined

\* os.path.splitext(file_name)[0] of the selected file.
file_name_without_ext == <<"b", "o", "o", "k">>

\* os.path.basename(new_file_path); every group's file is in file_dir.
new_file_name(group) ==
    file_name_without_ext \o <<"_">> \o safe_name(group.name)
        \o <<".", "x", "l", "s", "x">>

\* The conditions of the imported files: a good one, one whose values are
\* the number 7 and not a list, and one without the keys column and values.
\* A list of values is the sequence of the values.
GoodCondition == [sheet |-> DataName, column |-> <<"K">>, values |-> <<"x">>]

UnsizedCondition ==
    [sheet |-> DataName, column |-> <<"K">>, values |-> <<"<int 7>">>]

KeylessCondition == [sheet |-> DataName]

\* A name of 51 characters that ends with c.
LongName(c) == [k \in 1..safe_name_limit |-> "x"] \o <<c>>

\* The lists json.load returns for the files imported: two names that
\* differ in a character that is replaced; two names that differ after the
\* 50th character; a group whose values are no list; a group without
\* conditions and a group of no name with one condition invalid; a group
\* with no valid condition.
ImportFiles ==
    { << [name |-> <<"a", "/", "b">>, conditions |-> <<GoodCondition>>],
         [name |-> <<"a", "?", "b">>, conditions |-> <<GoodCondition>>] >>,
      << [name |-> LongName("a"), conditions |-> <<GoodCondition>>],
         [name |-> LongName("b"), conditions |-> <<GoodCondition>>] >>,
      << [name |-> <<"g">>, conditions |-> <<UnsizedCondition>>] >>,
      << [name |-> <<"g">>],
         [name |-> <<>>, conditions |-> <<KeylessCondition, GoodCondition>>] >>,
      << [name |-> <<"g">>, conditions |-> <<KeylessCondition>>] >> }

\* all(k in cond for k in ['sheet', 'column', 'values'])
valid_condition(cond) == {"sheet", "column", "values"} \subseteq DOMAIN cond

\* 'name' in group_data and 'conditions' in group_data, and
\* valid_conditions > 0.
valid_group_data(group_data) ==
    /\ {"name", "conditions"} \subseteq DOMAIN group_data
    /\ SelectSeq(group_data.conditions, valid_condition) # <<>>

\* The group made of group_data: its name, its valid conditions added.
group_of(group_data) ==
    [ConditionGroup(group_data.name) EXCEPT
        !.conditions = SelectSeq(group_data.conditions, valid_condition)]

\* imported_groups of import_condition_groups.
imported_groups_of(data) ==
    LET kept == SelectSeq(data, valid_group_data)
    IN  [k \in 1..Len(kept) |-> group_of(kept[k])]

\* len(values), and iterating over values, raise TypeError when values is
\* a number: update_condition_table (line 752), reached from
\* group_selected, and batch_process_with_openpyxl (line 1009).
values_raise(group) ==
    \E k \in 1..Len(group.conditions) :
        group.conditions[k].values \in NonStrValues

\* del self.condition_groups[index]
del(groups, index) ==
    [k \in 1..(Len(groups) - 1) |->
        IF k <= index THEN groups[k] ELSE groups[k + 1]]

\* The value of the progress bar after the group of index i, were
\* setValue(i + 1) inside the try block.
progress_in_try(i, raised, value) == IF raised THEN value ELSE i + 1

\* The value of the progress bar after the group of index i:
\* self.progress_bar.setValue(i + 1), after the try statement (line 970).
progress_after(i, raised, value) == i + 1

\* The selected file: none (self.excel_file is None), or a workbook.
GuiFiles == { <<>>, (DataName :> <<HeaderRow>>) }

InitGui ==
    /\ excel_file \in GuiFiles
    /\ wb = <<>>
    /\ conditions = <<>>
    /\ cond_idx = 0
    /\ sheet_row_mappings = <<>>
    /\ original_row_map = {}
    /\ rows_to_delete = {}
    /\ built_mapping = <<>>
    /\ original_formula = <<>>
    /\ new_formula = <<>>
    /\ pc = "gui"
    /\ NoCells
    /\ NoGui

\* add_condition_group: the group is appended and selected (group_selected
\* sets current_group_index to the last row; the new group has no
\* condition), and the process button enabled.
AddGroup ==
    /\ pc = "gui"
    /\ Len(condition_groups) < MaxGroups
    /\ condition_groups' =
           Append(condition_groups,
                  ConditionGroup(new_group_name(Len(condition_groups))))
    /\ current_group_index' = Len(condition_groups)
    /\ process_btn' = TRUE
    /\ UNCHANGED <<pc, progress_bar, group_i, processed_files, warned>>
    /\ UNCHANGED <<formula_vars, batch_vars, cell_vars>>

\* remove_condition_group: with a valid current_group_index the group is
\* deleted, no group is selected and the process button follows the number
\* of groups; otherwise nothing happens.
RemoveGroup ==
    /\ pc = "gui"
    /\ IF current_group_index >= 0
              /\ current_group_index < Len(condition_groups)
       THEN /\ condition_groups' = del(condition_groups, current_group_index)
            /\ current_group_index' = -1
            /\ process_btn' = (Len(condition_groups') > 0)
       ELSE UNCHANGED <<condition_groups, current_group_index, process_btn>>
    /\ UNCHANGED <<pc, progress_bar, group_i, processed_files, warned>>
    /\ UNCHANGED <<formula_vars, batch_vars, cell_vars>>

\* group_selected after a click on the item of a row (itemClicked, line
\* 460): the row becomes current_group_index.
SelectGroup ==
    /\ pc = "gui"
    /\ \E selected_row \in 0..(Len(condition_groups) - 1) :
           current_group_index' = selected_row
    /\ UNCHANGED <<condition_groups, process_btn>>
    /\ UNCHANGED <<pc, progress_bar, group_i, processed_files, warned>>
    /\ UNCHANGED <<formula_vars, batch_vars, cell_vars>>

\* import_condition_groups from line 1264 on, for the list read from the
\* file and the answer to "replace the existing groups?".  With no valid
\* group, or the answer Cancel, it returns.  Otherwise the groups replace
\* the list or are added to it, the first row is selected, and the process
\* button is enabled unless update_condition_table raised for the first
\* group: line 1315 is then skipped, the except clause of line 1326 only
\* shows a message.
ImportGroups ==
    /\ pc = "gui"
    /\ \E data \in ImportFiles, reply \in {"Yes", "No", "Cancel"} :
           LET imported_groups == imported_groups_of(data)
               groups == IF condition_groups # <<>> /\ reply = "No"
                         THEN condition_groups \o imported_groups
                         ELSE imported_groups
           IN  IF \/ imported_groups = <<>>
                  \/ condition_groups # <<>> /\ reply = "Cancel"
               THEN UNCHANGED <<condition_groups, current_group_index,
                                process_btn>>
               ELSE /\ Len(groups) <= MaxGroups
                    /\ condition_groups' = groups
                    /\ current_group_index' = 0
                    /\ process_btn' =
                           IF values_raise(groups[1]) THEN process_btn
                           ELSE TRUE
    /\ UNCHANGED <<pc, progress_bar, group_i, processed_files, warned>>
    /\ UNCHANGED <<formula_vars, batch_vars, cell_vars>>

\* start_batch_processing up to the loop, after a click on the process
\* button: it returns when no file is selected, when there is no group and
\* when the answer is No; otherwise the progress bar is shown and set up.
StartBatch ==
    /\ pc = "gui"
    /\ process_btn
    /\ \E reply \in {"Yes", "No"} :
           IF excel_file = <<>> \/ condition_groups = <<>> \/ reply = "No"
           THEN UNCHANGED <<pc, progress_bar, group_i, processed_files,
                            warned>>
           ELSE /\ progress_bar' = [visible |-> TRUE,
                                    maximum |-> Len(condition_groups),
                                    value |-> 0]
                /\ group_i' = 0
                /\ processed_files' = <<>>
                /\ warned' = <<>>
                /\ pc' = "run"
    /\ UNCHANGED <<condition_groups, current_group_index, process_btn>>
    /\ UNCHANGED <<formula_vars, batch_vars, cell_vars>>

\* One pass of the loop of lines 940-971.  Processing the group raises when
\* its values are no list, and may raise for any group when a file cannot
\* be copied, opened or saved; the except clause shows the warning and the
\* loop goes on.
ProcessGroup ==
    /\ pc = "run"
    /\ group_i < Len(condition_groups)
    /\ LET group == condition_groups[group_i + 1]
       IN  \E raised \in IF values_raise(group) THEN {TRUE} ELSE BOOLEAN :
               /\ processed_files' =
                      IF raised THEN processed_files
                      ELSE Append(processed_files, new_file_name(group))
               /\ warned' = IF raised THEN Append(warned, group_i) ELSE warned
               /\ progress_bar' =
                      [progress_bar EXCEPT
                          !.value = progress_after(group_i, raised, @)]
    /\ group_i' = group_i + 1
    /\ UNCHANGED <<pc, condition_groups, current_group_index, process_btn>>
    /\ UNCHANGED <<formula_vars, batch_vars, cell_vars>>

\* Lines 973-991: after the loop the result is shown, and the finally
\* clause hides the progress bar.
FinishBatch ==
    /\ pc = "run"
    /\ group_i = Len(condition_groups)
    /\ progress_bar' = [progress_bar EXCEPT !.visible = FALSE]
    /\ pc' = "finished"
    /\ UNCHANGED <<condition_groups, current_group_index, process_btn,
                   group_i, processed_files, warned>>
    /\ UNCHANGED <<formula_vars, batch_vars, cell_vars>>

\* start_batch_processing returns: its local variables are gone.
ReturnFromBatch ==
    /\ pc = "finished"
    /\ pc' = "gui"
    /\ group_i' = 0
    /\ processed_files' = <<>>
    /\ warned' = <<>>
    /\ UNCHANGED <<condition_groups, current_group_index, process_btn,
                   progress_bar>>
    /\ UNCHANGED <<formula_vars, batch_vars, cell_vars>>

NextGui ==
    AddGroup \/ RemoveGroup \/ SelectGroup \/ ImportGroups \/ StartBatch
        \/ ProcessGroup \/ FinishBatch \/ ReturnFromBatch

SpecGui == InitGui /\ [][NextGui]_vars

(***************************************************************************)
(* What the claims speak of.                                               *)
(***************************************************************************)
\* The operators that join the references of a formula.
Operators == {"+", "*"}

\* The pieces of s from position i on, cut at the operators; cur is the
\* piece being read.
RECURSIVE SplitFrom(_, _, _)
SplitFrom(s, i, cur) ==
    IF i > Len(s) THEN <<cur>>
    ELSE IF s[i] \in Operators THEN <<cur>> \o SplitFrom(s, i + 1, <<>>)
    ELSE SplitFrom(s, i + 1, Append(cur, s[i]))

\* The operands of a formula: the text after "=" cut at the operators. No
\* reference holds an operator, so a replacement neither adds nor removes
\* an operand, and the i-th operand of the output is what the i-th operand
\* of the input has become.
Segments(f) == SplitFrom(f, 2, <<>>)

\* A reference, the whole of it: [$]letters[$]digits.
IsRef(t) == t # <<>> /\ CoreEnd(t, 1) = Len(t) + 1

\* A formula made of references joined by operators.
IsRefList(f) ==
    /\ f # <<>> /\ f[1] = "="
    /\ \A i \in 1..Len(Segments(f)) : IsRef(Segments(f)[i])

\* The parts of a reference, read off its text.
FirstDigit(t) ==
    CHOOSE k \in 1..Len(t) :
        t[k] \in Digits /\ \A j \in 1..(k - 1) : t[j] \notin Digits

HasRowDollar(t) == t[FirstDigit(t) - 1] = "$"

ColumnPart(t) ==
    SubSeq(t, 1, FirstDigit(t) - (IF HasRowDollar(t) THEN 2 ELSE 1))

RefRow(t) == int(SubSeq(t, FirstDigit(t), Len(t)))

\* The row of the reference survives: it is a key mapped to a row number.
Survives(t, m) == RefRow(t) \in DOMAIN m /\ m[RefRow(t)] # None

\* The row of the reference was deleted.
Tombstoned(t, m) == RefRow(t) \in DOMAIN m /\ m[RefRow(t)] = None

\* The row of the reference is no key of the mapping.
Unmapped(t, m) == RefRow(t) \notin DOMAIN m

\* What a position-based rewriter makes of one reference: its column part,
\* its "$" if it has one, and the new row number; the reference itself if
\* its row does not survive.
MappedForm(t, m) ==
    IF Survives(t, m)
    THEN ColumnPart(t) \o (IF HasRowDollar(t) THEN <<"$">> ELSE <<>>)
                       \o str(m[RefRow(t)])
    ELSE t

\* adjust_formula_references has been called, and has returned or raised.
Called == pc = "adjusted"

\* The call has returned: new_formula is its return value.
Adjusted == Called /\ new_formula # Raised

InSegs == Segments(original_formula)

OutSegs == Segments(new_formula)

\* refs with its i-th and (i+1)-th elements exchanged.
Swap(refs, i) ==
    [k \in 1..Len(refs) |->
        IF k = i THEN refs[i + 1] ELSE IF k = i + 1 THEN refs[i] ELSE refs[k]]

(***************************************************************************)
(* The claims.                                                             *)
(***************************************************************************)
\* C1: the mapping built for rows 1..N and a deleted set D is strictly
\* increasing on the retained rows: a < b retained implies map(a) < map(b).
C1_StrictlyIncreasing ==
    pc = "mapped" =>
        \A a, b \in original_row_map \ rows_to_delete :
            a < b => built_mapping[a] < built_mapping[b]

\* Two retained rows with a deleted row between them have been mapped.
C1_Witness ==
    /\ pc = "mapped"
    /\ \E a, b \in original_row_map \ rows_to_delete :
           \E d \in rows_to_delete : a < d /\ d < b

\* C2: the mapping has exactly the original rows as its keys; a deleted row
\* is mapped to None and any other row r to r minus the number of deleted
\* rows below r.
C2_TotalAndShifted ==
    pc = "mapped" =>
        /\ DOMAIN built_mapping = original_row_map
        /\ \A r \in original_row_map :
               built_mapping[r] =
                   IF r \in rows_to_delete THEN None
                   ELSE r - Cardinality({d \in rows_to_delete : d < r})

\* A mapping with a deleted row and a retained row above two deleted rows.
C2_Witness ==
    /\ pc = "mapped"
    /\ \E r \in original_row_map \ rows_to_delete :
           Cardinality({d \in rows_to_delete : d < r}) >= 2

\* C3: with no row deleted, every formula is returned unchanged.
C3_NoDeletionUnchanged ==
    (Adjusted /\ rows_to_delete = {}) => new_formula = original_formula

\* C4: with rows 2..9 of 1..100 deleted (1 -> 1, 10 -> 2, 100 -> 92), the
\* formula =A1+A10+A100 is rewritten to =A1+A2+A92.
C4_LongestMatch ==
    ( /\ Adjusted
      /\ original_row_map = 1..100
      /\ rows_to_delete = 2..9
      /\ original_formula = <<"=", "A", "1", "+", "A", "1", "0", "+", "A", "1", "0", "0">> )
    => /\ built_mapping[1] = 1
       /\ built_mapping[10] = 2
       /\ built_mapping[100] = 92
       /\ new_formula = <<"=", "A", "1", "+", "A", "2", "+", "A", "9", "2">>

\* =A1+A10+A100 has been rewritten on the sheet of 100 rows.
C4_Witness ==
    /\ Adjusted
    /\ original_row_map = 1..100
    /\ rows_to_delete = 2..9
    /\ original_formula = <<"=", "A", "1", "+", "A", "1", "0", "+", "A", "1", "0", "0">>

\* C5: in a formula of references joined by operators every reference is
\* replaced by its own mapped form, once, as a position-based rewriter
\* would: no substitution made for one reference alters another.
C5_IndependentRewriting ==
    (Adjusted /\ IsRefList(original_formula)) =>
        /\ Len(OutSegs) = Len(InSegs)
        /\ \A i \in 1..Len(InSegs) :
               OutSegs[i] = MappedForm(InSegs[i], built_mapping)

\* C6: the result does not depend on the order in which references of
\* equal length are substituted, and for two references x, y of equal
\* length =x+y and =y+x rewrite x to the same text and y to the same text.
C6_TieOrderIndependent ==
    (Adjusted /\ IsRefList(original_formula)) =>
        LET refs == sort_by_len_reverse(parse_cell_references(original_formula))
            swapped == <<"=">> \o InSegs[2] \o <<"+">> \o InSegs[1]
            other == Segments(adjust_formula_references(swapped, built_mapping))
        IN  /\ \A i \in 1..(Len(refs) - 1) :
                   Len(refs[i]) = Len(refs[i + 1]) =>
                       substitute_refs(original_formula, Swap(refs, i), 1,
                                       built_mapping) = new_formula
            /\ (Len(InSegs) = 2 /\ Len(InSegs[1]) = Len(InSegs[2])) =>
                   (OutSegs[1] = other[2] /\ OutSegs[2] = other[1])

\* C7: a reference whose row is mapped to None stands unchanged in the
\* output, whatever other references the formula holds.
C7_TombstoneUnchanged ==
    (Adjusted /\ IsRefList(original_formula)) =>
        /\ Len(OutSegs) = Len(InSegs)
        /\ \A i \in 1..Len(InSegs) :
               Tombstoned(InSegs[i], built_mapping) => OutSegs[i] = InSegs[i]

\* C8: a reference whose row is no key of the mapping stands unchanged in
\* the output, whatever other references the formula holds.
C8_UnmappedUnchanged ==
    (Adjusted /\ IsRefList(original_formula)) =>
        /\ Len(OutSegs) = Len(InSegs)
        /\ \A i \in 1..Len(InSegs) :
               Unmapped(InSegs[i], built_mapping) => OutSegs[i] = InSegs[i]

\* C9: a formula of one reference whose row r is mapped to a surviving row
\* m is rewritten to the same column part (with its "$", if any), a "$"
\* before the row exactly if the input had one, and the digits of m; $A$10
\* with 10 -> 7 gives $A$7 and A10 gives A7.
C9_AbsoluteMarkerPreserved ==
    ( /\ Adjusted
      /\ IsRefList(original_formula)
      /\ Len(InSegs) = 1
      /\ Survives(InSegs[1], built_mapping) )
    => /\ new_formula =
              <<"=">> \o ColumnPart(InSegs[1])
                  \o (IF HasRowDollar(InSegs[1]) THEN <<"$">> ELSE <<>>)
                  \o str(built_mapping[RefRow(InSegs[1])])
       /\ (10 \in DOMAIN built_mapping /\ built_mapping[10] = 7) =>
              /\ original_formula = <<"=", "$", "A", "$", "1", "0">> =>
                     new_formula = <<"=", "$", "A", "$", "7">>
              /\ original_formula = <<"=", "A", "1", "0">> =>
                     new_formula = <<"=", "A", "7">>

\* =$A$10 has been rewritten with row 10 mapped to row 7.
C9_Witness ==
    /\ Adjusted
    /\ original_formula = <<"=", "$", "A", "$", "1", "0">>
    /\ 10 \in DOMAIN built_mapping
    /\ built_mapping[10] = 7
    /\ new_formula = <<"=", "$", "A", "$", "7">>

Saved == pc = "saved"

\* The value is a formula: a str that starts with "=".
IsFormula(v) == isinstance_str(v) /\ startswith_eq(v)

\* The formula is "=" and one reference, with a sheet qualifier or without.
IsSoleRef(f) ==
    IsFormula(f) /\ Len(f) >= 2 /\ MatchAt(f, 2)[2] = Len(f) + 1

\* The position at which the reference of such a formula starts, after
\* the qualifier if it has one.
RefStart(f) == MatchAt(f, 2)[1]

IsQualified(f) == RefStart(f) > 2

\* The sheet the qualifier names.
SheetOf(f) == strip_quote(SubSeq(f, 2, RefStart(f) - 2))

\* The formula with its reference remapped by m, the qualifier left as it
\* is.
Remapped(f, m) ==
    SubSeq(f, 1, RefStart(f) - 1) \o MappedForm(SubSeq(f, RefStart(f), Len(f)), m)

\* The sheets the condition group filters, and how many of its conditions
\* filter a sheet.
Filtering(name) ==
    { i \in 1..Len(conditions) :
          conditions[i].sheet = name /\ Applies(conditions[i], excel_file) }

FilteredSheets == { name \in DOMAIN excel_file : Filtering(name) # {} }

\* What the F cell of the i-th row of the sheet held in the file, and what
\* it holds now.
OrigCell(name, i) == excel_file[name][wb[name][i].id].b

FinalCell(name, i) == wb[name][i].b

\* C11: with sheet Data of rows 1-5 filtered so that row 3 is deleted (map
\* 1->1, 2->2, 3->None, 4->3, 5->4) and sheet Summary not filtered, the
\* formula =Data!A4 on Summary is saved as =Data!A3, and the formula
\* =Data!A3 on Summary is saved as it was.
C11_CrossSheetScenario ==
    ( /\ Saved
      /\ Len(excel_file[DataName]) = 5
      /\ DOMAIN sheet_row_mappings = {DataName}
      /\ sheet_row_mappings[DataName] = <<1, 2, None, 3, 4>>
      /\ OrigCell(SummaryName, 2) = <<"=">> \o DataName \o <<"!", "A", "4">>
      /\ OrigCell(SummaryName, 3) = <<"=">> \o DataName \o <<"!", "A", "3">> )
    => /\ FinalCell(SummaryName, 2) = <<"=">> \o DataName \o <<"!", "A", "3">>
       /\ FinalCell(SummaryName, 3) = <<"=">> \o DataName \o <<"!", "A", "3">>

\* C12: in the saved workbook a formula of one unqualified reference, in a
\* sheet filtered once, is the original remapped with that sheet's mapping
\* (and the original in a sheet not filtered); a formula of one qualified
\* reference T!ref is the original, or the original remapped with the
\* mapping of T: never with the mapping of another sheet.
C12_SheetResolution ==
    Saved =>
        \A name \in DOMAIN wb : \A i \in 1..Len(wb[name]) :
            IsSoleRef(OrigCell(name, i)) =>
                IF IsQualified(OrigCell(name, i))
                THEN \/ FinalCell(name, i) = OrigCell(name, i)
                     \/ /\ Cardinality(Filtering(SheetOf(OrigCell(name, i)))) = 1
                        /\ FinalCell(name, i) =
                               Remapped(OrigCell(name, i),
                                        sheet_row_mappings[SheetOf(OrigCell(name, i))])
                     \/ Cardinality(Filtering(SheetOf(OrigCell(name, i)))) > 1
                ELSE /\ Filtering(name) = {} =>
                            FinalCell(name, i) = OrigCell(name, i)
                     /\ Cardinality(Filtering(name)) = 1 =>
                            FinalCell(name, i) =
                                Remapped(OrigCell(name, i), sheet_row_mappings[name])

\* C13: a formula of one reference qualified with a sheet that has no row
\* mapping (a sheet not filtered, or the name of no sheet) is saved as it
\* was in the file, in whatever sheet it is, a filtered one included.
C13_UnmappedSheetRoundTrip ==
    Saved =>
        \A name \in DOMAIN wb : \A i \in 1..Len(wb[name]) :
            ( /\ IsSoleRef(OrigCell(name, i))
              /\ IsQualified(OrigCell(name, i))
              /\ SheetOf(OrigCell(name, i)) \notin DOMAIN sheet_row_mappings )
            => FinalCell(name, i) = OrigCell(name, i)

\* The position of the first row digit of the reference that starts at c.
RowDigitsStart(s, c) ==
    IF s[ColEnd(s, c)] = "$" THEN ColEnd(s, c) + 1 ELSE ColEnd(s, c)

\* The text from position i on with the row digits of every reference the
\* pattern finds left out: what is left is the sheet qualifiers, the column
\* letters, the "$" markers and the text between the references.
RECURSIVE Skeleton(_, _)
Skeleton(s, i) ==
    IF i > Len(s) THEN <<>>
    ELSE LET m == MatchAt(s, i)
         IN  IF m[2] # 0
             THEN SubSeq(s, i, RowDigitsStart(s, m[1]) - 1) \o Skeleton(s, m[2])
             ELSE <<s[i]>> \o Skeleton(s, i + 1)

\* C14: an input that does not start with "=" (the empty str, None and
\* other objects that are no str included) is returned unchanged, whatever
\* the mapping.
C14_NonFormulaPassThrough ==
    (Adjusted /\ ~IsFormula(original_formula)) => new_formula = original_formula

\* The str A4, which is no formula, has been handed in with row 4 mapped to
\* row 3, and has come back as it was.
C14_Witness ==
    /\ Adjusted
    /\ original_formula = <<"A", "4">>
    /\ 4 \in DOMAIN built_mapping
    /\ built_mapping[4] = 3
    /\ new_formula = original_formula

\* C15: the output differs from the input in the row digits of references
\* only: sheet qualifiers (B2!B2 included), column letters and "$" markers
\* are the input's.
C15_OnlyRowDigitsChange ==
    (Adjusted /\ IsFormula(original_formula)) =>
        Skeleton(new_formula, 1) = Skeleton(original_formula, 1)

\* C16: the call never raises for a str that starts with "=", and a formula
\* with no recognised reference is returned unchanged.
C16_Total ==
    (Called /\ IsFormula(original_formula)) =>
        /\ new_formula # Raised
        /\ parse_cell_references(original_formula) = <<>> =>
               new_formula = original_formula

\* A step that rewrites formulas is next: update_formulas_in_sheet, or the
\* cross-sheet pass.
RewritingNext ==
    pc = "update" \/ (pc = "loop" /\ cond_idx > Len(conditions))

\* C17: when a step that rewrites formulas is taken, the row mapping of
\* every sheet the condition group filters has been built.
C17_TwoPhaseBarrier ==
    RewritingNext => FilteredSheets \subseteq DOMAIN sheet_row_mappings

\* C18: the deletion of the rows of rows_to_delete, one at a time from the
\* highest down, leaves every retained row r of the sheet at position
\* mapping[r], and takes out exactly the rows mapped to None.
C18_DeletionAgreesWithMapping ==
    [][pc = "delete" =>
          LET before == wb[condition.sheet]
              after == wb'[condition.sheet]
              retained == { r \in original_row_map : built_mapping[r] # None }
          IN  /\ Len(after) = Cardinality(retained)
              /\ \A r \in retained : after[built_mapping[r]] = before[r]
              /\ \A r \in original_row_map \ retained :
                     \A i \in 1..Len(after) : after[i].id # before[r].id
      ]_vars

\* Two rows have been deleted below a row that is retained.
C18_Witness ==
    /\ pc = "update"
    /\ \E r \in original_row_map \ rows_to_delete :
           /\ built_mapping[r] = r - 2
           /\ wb[condition.sheet][r - 2].id = r

\* C19: row 1 is not among the rows handed to
\* build_row_mapping_after_deletion, and is mapped to 1.
C19_HeaderRowNeverDeleted ==
    pc \in {"delete", "update"} =>
        /\ 1 \notin rows_to_delete
        /\ built_mapping[1] = 1

\* A mapping has been built for a sheet of which the filter deletes two
\* rows or more.
C19_Witness ==
    /\ pc = "delete"
    /\ Cardinality(rows_to_delete) >= 2
    /\ built_mapping[1] = 1

\* No data row of the sheet being filtered holds a filter value.
NothingMatches ==
    \A r \in 2..max_row(wb[condition.sheet]) :
        cell_value_of(cell_of(wb[condition.sheet][r],
                              col_index_of(wb[condition.sheet], condition.column)))
            \notin filter_values_of(condition)

\* C20: for a sheet with a data row, the rows handed to
\* build_row_mapping_after_deletion are not all its data rows; where the
\* filter matches no row, row 2 is retained.
C20_OneDataRowSurvives ==
    (pc = "delete" /\ max_row(wb[condition.sheet]) >= 2) =>
        /\ (2..max_row(wb[condition.sheet])) \ rows_to_delete # {}
        /\ NothingMatches => 2 \notin rows_to_delete

\* A filter that matches none of three data rows has left row 2.
C20_Witness ==
    /\ pc = "delete"
    /\ max_row(wb[condition.sheet]) = 4
    /\ NothingMatches
    /\ rows_to_delete = {3, 4}

(***************************************************************************)
(* Frame conditions and shape of the mapping (C21, C23, C26, C28).         *)
(***************************************************************************)

C23_OutsideGrammarPassThrough ==
    (Called /\ original_formula \in OutsideGrammarFormulas)
        => new_formula = original_formula

\* "=a10" has gone through a mapping that moves row 10 and come back as it
\* was.
C23_Witness ==
    /\ Adjusted
    /\ original_formula = <<"=", "a", "1", "0">>
    /\ 10 \in DOMAIN built_mapping
    /\ built_mapping[10] \notin {10, None}
    /\ new_formula = original_formula

\* C26: compaction.  For rows 1..N and a deleted set D within them, the
\* retained rows are mapped one-to-one onto exactly 1..(N - |D|), and no
\* retained row moves down: map(r) <= r.
C26_Compaction ==
    pc \in {"mapped", "adjusted"} =>
        LET N == Cardinality(original_row_map)
            retained == original_row_map \ rows_to_delete
            image == { built_mapping[r] : r \in retained }
        IN  /\ original_row_map = 1..N
            /\ rows_to_delete \subseteq original_row_map
            /\ retained \subseteq DOMAIN built_mapping
            /\ image = 1..(N - Cardinality(rows_to_delete))
            /\ \A r1, r2 \in retained :
                   built_mapping[r1] = built_mapping[r2] => r1 = r2
            /\ \A r \in retained : built_mapping[r] <= r

\* A mapping has been built for deleted rows that are not contiguous, with
\* retained rows before, between and after them.
C26_Witness ==
    /\ pc = "mapped"
    /\ \E d1, d2 \in rows_to_delete : d2 > d1 + 1
    /\ \E r \in original_row_map \ rows_to_delete :
           /\ \E d \in rows_to_delete : d < r
           /\ \E d \in rows_to_delete : d > r
    /\ \E r \in original_row_map \ rows_to_delete :
           \A d \in rows_to_delete : d < r

\* C28: only cell references change.  In a formula with a function name
\* of the shape letters-then-digits (LOG10, ATAN2) or such text inside a
\* string literal, and whose cell references are all to row 1, a mapping
\* that keeps row 1 in place returns the formula identical.
C28_OnlyReferencesChange ==
    (/\ Adjusted
     /\ original_formula \in NameAndLiteralFormulas
     /\ 1 \in DOMAIN built_mapping
     /\ built_mapping[1] = 1)
        => new_formula = original_formula

(***************************************************************************)
(* The cross-sheet pass and repeated filtering of a sheet (C24, C27).      *)
(***************************************************************************)

\* The cross-sheet pass is about to start: every condition has been handled.
BeforeCrossSheetPass == pc = "loop" /\ cond_idx > Len(conditions)

\* The names the cross-sheet pass looks up in sheet_row_mappings for the
\* cell value v: target_sheet = ref_sheet.strip("'") of every pair found.
LookedUp(v) ==
    { strip_quote(findall_sheet_refs(v, 1)[i][1]) :
          i \in 1..Len(findall_sheet_refs(v, 1)) }

\* C24: for every formula of one sheet-qualified reference that the
\* cross-sheet pass reads, the sheet name it extracts and looks up in
\* sheet_row_mappings is exactly the name of the referenced sheet, without
\* the leading "=" and without quotes.
C24_SheetNameExtracted ==
    BeforeCrossSheetPass =>
        \A name \in DOMAIN wb : \A i \in 1..Len(wb[name]) :
            ( /\ IsSoleRef(FinalCell(name, i))
              /\ IsQualified(FinalCell(name, i)) )
                => LookedUp(FinalCell(name, i)) = {SheetOf(FinalCell(name, i))}

\* The row number the row r of the sheet in the file has in the workbook
\* now, None if the row has been deleted.
FinalRow(name, r) ==
    IF \E i \in 1..Len(wb[name]) : wb[name][i].id = r
    THEN CHOOSE i \in 1..Len(wb[name]) : wb[name][i].id = r
    ELSE None

\* C27: when two or more conditions of the group filter the same sheet, the
\* mapping kept in sheet_row_mappings for it at the start of the cross-sheet
\* pass takes every row number of the sheet in the file to the row number
\* the row has after all the passes (None for a deleted row): the
\* composition of the mappings of the passes.
C27_MappingIsComposition ==
    BeforeCrossSheetPass =>
        \A name \in DOMAIN excel_file :
            Cardinality(Filtering(name)) >= 2 =>
                /\ name \in DOMAIN sheet_row_mappings
                /\ DOMAIN sheet_row_mappings[name] = 1..Len(excel_file[name])
                /\ \A r \in 1..Len(excel_file[name]) :
                       sheet_row_mappings[name][r] = FinalRow(name, r)

(***************************************************************************)
(* Cells rewritten in any order (C22).                                     *)
(***************************************************************************)
\* C22: per-cell independence.  With the row mapping fixed, in whatever order
\* the cells of a sheet are rewritten, every cell that has been rewritten
\* holds adjust_formula_references of its own original value (a value that
\* is no formula stays), every other cell holds its original value, and
\* when all cells have been rewritten the sheet is the one
\* update_formulas_in_sheet makes going row by row.
C22_PerCellIndependence ==
    pc = "cells" =>
        LET orig == excel_file[DataName]
            now == wb[DataName]
        IN  /\ \A cell \in cells_of(orig) :
                   now[cell[1]][cell[2]] =
                       IF cell \in rewritten
                       THEN IF IsFormulaStr(orig[cell[1]][cell[2]])
                            THEN adjust_formula_references(
                                     orig[cell[1]][cell[2]], built_mapping)
                            ELSE orig[cell[1]][cell[2]]
                       ELSE orig[cell[1]][cell[2]]
            /\ rewritten = cells_of(orig) =>
                   now = update_formulas_in_sheet(orig, built_mapping)

\* All the cells of a sheet have been rewritten, and the two cells of one
\* row, of different formulas, have both changed.
C22_Witness ==
    /\ pc = "cells"
    /\ rewritten = cells_of(wb[DataName])
    /\ \E r \in 1..Len(wb[DataName]) :
           /\ wb[DataName][r].a # excel_file[DataName][r].a
           /\ wb[DataName][r].b # excel_file[DataName][r].b
           /\ excel_file[DataName][r].a # excel_file[DataName][r].b

(***************************************************************************)
(* The condition groups and the run over them (C25, C29, C30).             *)
(***************************************************************************)
\* start_batch_processing has gone through the loop and its finally clause.
Finished == pc = "finished"

\* The indexes of the groups, in order.
GroupIndexes == [k \in 1..Len(condition_groups) |-> k - 1]

\* i is the index of a group the warning box was shown for.
Warned(i) == \E k \in 1..Len(warned) : warned[k] = i

NotWarned(i) == ~Warned(i)

\* The indexes of the groups that were processed without raising, in order.
Succeeded == SelectSeq(GroupIndexes, NotWarned)

C29_DistinctOutputPaths ==
    pc \in {"run", "finished"} =>
        \A k, l \in 1..Len(processed_files) :
            processed_files[k] = processed_files[l] => k = l

\* C30: the process button is enabled exactly when there is a condition
\* group, and current_group_index is -1 or the index of a group.
C30_ButtonAndIndex ==
    pc \in {"gui", "run", "finished"} =>
        /\ process_btn <=> (condition_groups # <<>>)
        /\ \/ current_group_index = -1
           \/ current_group_index \in 0..(Len(condition_groups) - 1)

====
